---- MODULE Spec2Model ----
(***************************************************************************)
(* Model of the voice-reference cache and fallback resolution of the       *)
(* NeuTTS-Air API server (src/app/main.py).                                *)
(*                                                                         *)
(* Strings are sequences of one-character strings, so that str.upper() is  *)
(* computed character by character.  The samples/ directory is a set of    *)
(* files with case-sensitive names.  Both endpoints are `async def` and    *)
(* call the synchronous run_inference without awaiting anything, so the    *)
(* event loop runs each request to its end before it starts the next one:  *)
(* a request is one atomic action.                                         *)
(***************************************************************************)
EXTENDS Naturals, Sequences, FiniteSets

VARIABLES
    samples,            \* files present in samples/ (read-only at run time)
    tts_model,          \* app_state.get("tts_model") is truthy
    cached_references,  \* app_state["cached_references"]: key -> reference
    encode_calls,       \* history: encode_reference invocations per cache key
    served,             \* history: number of requests handled so far
    last                \* history: the last request handled and its result

vars == <<samples, tts_model, cached_references, encode_calls, served, last>>

---------------------------------------------------------------------------
(* Bounds of the model *)

\* at most this many files exist in samples/
MaxFiles == 4

\* at most this many requests are handled in one behaviour
MaxRequests == 2

---------------------------------------------------------------------------
(* Strings *)

LowerLetters == <<"a", "d", "e", "f", "l", "m", "v">>
UpperLetters == <<"A", "D", "E", "F", "L", "M", "V">>

\* the capital of each lower-case letter
Capital == [c \in {LowerLetters[i] : i \in 1..Len(LowerLetters)} |->
               UpperLetters[CHOOSE i \in 1..Len(LowerLetters) : LowerLetters[i] = c]]

\* str.upper() on one character: a lower-case letter maps to its capital,
\* every other character is unchanged
UpperChar(c) == IF c \in DOMAIN Capital THEN Capital[c] ELSE c

\* str.upper()
upper(s) == [i \in 1..Len(s) |-> UpperChar(s[i])]

\* Python's `needle in haystack` on strings
Contains(haystack, needle) ==
    \E i \in 0..(Len(haystack) - Len(needle)) :
        SubSeq(haystack, i + 1, i + Len(needle)) = needle

\* optional values: None is the empty sequence, a value v is <<v>>
None == <<>>
Some(v) == <<v>>

---------------------------------------------------------------------------
(* Inputs *)

male   == <<"m", "a", "l", "e">>
MALE   == <<"M", "A", "L", "E">>
female == <<"f", "e", "m", "a", "l", "e">>
FEMALE == <<"F", "E", "M", "A", "L", "E">>
dave   == <<"d", "a", "v", "e">>
DAVE   == <<"D", "A", "V", "E">>

\* voice names a request may carry
VoiceNames == {male, MALE, female, dave, DAVE}

\* names (without extension) a file in samples/ may have
FileStems == {male, female, dave, DAVE}

\* request texts
Texts == {"Hello, world."}

\* samples/<stem>.wav and samples/<stem>.txt
AudioPath(stem) == [stem |-> stem, ext |-> "wav"]
TextPath(stem) == [stem |-> stem, ext |-> "txt"]

AllFiles == {AudioPath(n) : n \in FileStems} \cup {TextPath(n) : n \in FileStems}

\* os.path.exists
exists(files, path) == path \in files

\* open(path).read().strip(): the transcript held by a file
ReadText(path) == <<"transcript of", path.stem>>

\* tts_model.encode_reference(path): the codes of an audio file
encode_reference(path) == <<"codes of", path.stem>>

---------------------------------------------------------------------------
(* Start-up: the cache and its pre-loaded voices *)

\* {"text": ref_text, "codes": ref_codes}
Reference(ref_text, ref_codes) == [text |-> ref_text, codes |-> ref_codes]

\* the empty dict
EmptyCache == [k \in {} |-> Reference(<<>>, <<>>)]

\* mutant of StoreReference: the dict is replaced instead of extended
StoreReference_Reset(refs, key, reference) == [k \in {key} |-> reference]

\* cached_refs[key] = reference
StoreReference(refs, key, reference) ==
    [k \in (DOMAIN refs) \cup {key} |-> IF k = key THEN reference ELSE refs[k]]

\* one round of the pre-load loop: a voice whose audio or transcript file is
\* missing is skipped, any other is encoded and cached under its name
PreloadVoice(refs, files, name, stem) ==
    IF ~exists(files, AudioPath(stem)) \/ ~exists(files, TextPath(stem))
    THEN refs
    ELSE StoreReference(refs, name,
             Reference(ReadText(TextPath(stem)), encode_reference(AudioPath(stem))))

\* the pre-load loop over voice_types: MALE from samples/male.*, FEMALE from
\* samples/female.*
Preload(files) ==
    PreloadVoice(PreloadVoice(EmptyCache, files, MALE, male), files, FEMALE, female)

---------------------------------------------------------------------------
(* run_inference *)

\* mutant of CacheKey: the key is the name as given
CacheKey_AsGiven(voice_name) == voice_name

\* requested = voice_name.upper()
CacheKey(voice_name) == upper(voice_name)

\* mutant of IsCached: the cache is never consulted
IsCached_Never(refs, requested) == FALSE

\* requested in cached_refs
IsCached(refs, requested) == requested \in DOMAIN refs

\* A step of a request that the history records: a test of the cache, a write
\* to it, or a call made to a collaborator (the filesystem or the model).
\* ok is what a test returned, or whether a call returned without raising.
Call(op, path, ok) == [op |-> op, stem |-> path.stem, ext |-> path.ext, ok |-> ok]
NoPath == [stem |-> <<>>, ext |-> ""]
KeyPath(key) == [stem |-> key, ext |-> ""]

\* mutant of FallbackWarning: the warning quotes the upper-cased key
FallbackWarning_Upper(voice_name) ==
    <<"Requested voice '">> \o upper(voice_name)
        \o <<"' not found in samples/. Falling back to MALE.">>

\* the f-string of the fallback warning
FallbackWarning(voice_name) ==
    <<"Requested voice '">> \o voice_name
        \o <<"' not found in samples/. Falling back to MALE.">>

\* mutant of NotFoundDetail: the detail does not name the voice
NotFoundDetail_Generic(voice_name) ==
    <<"Reference voice not found and no MALE fallback available.">>

\* the f-string of the 404 detail
NotFoundDetail(voice_name) ==
    <<"Reference voice for '">> \o voice_name
        \o <<"' not found and no MALE fallback available.">>

ModelUnavailableDetail == <<"TTS model is not available.">>
InternalErrorDetail == <<"Failed to generate audio due to an internal error.">>

\* what the try block of the lazy encode may do
TryOutcomes == {"ok", "read_raises", "encode_raises"}

\* mutant of LazyEncode: the encoded reference is used but never stored
LazyEncode_NoStore(refs, voice_name, try_outcome) ==
    LET audio_path == AudioPath(voice_name)
        text_path == TextPath(voice_name)
    IN  IF try_outcome = "read_raises"
        THEN [refs |-> refs, reference |-> None,
              calls |-> <<Call("read", text_path, FALSE)>>]
        ELSE IF try_outcome = "encode_raises"
        THEN [refs |-> refs, reference |-> None,
              calls |-> <<Call("read", text_path, TRUE),
                          Call("encode_reference", audio_path, FALSE)>>]
        ELSE [refs |-> refs,
              reference |-> Some(Reference(ReadText(text_path),
                                           encode_reference(audio_path))),
              calls |-> <<Call("read", text_path, TRUE),
                          Call("encode_reference", audio_path, TRUE)>>]

\* mutant of LazyEncode: the entry is created before the encode, so an
\* encode that raises leaves a half-made entry behind
LazyEncode_StoreOnFailure(refs, voice_name, try_outcome) ==
    LET requested == upper(voice_name)
        audio_path == AudioPath(voice_name)
        text_path == TextPath(voice_name)
        half == StoreReference(refs, requested,
                    Reference(ReadText(text_path), <<>>))
        stored == StoreReference(refs, requested,
                      Reference(ReadText(text_path), encode_reference(audio_path)))
    IN  IF try_outcome = "read_raises"
        THEN [refs |-> refs, reference |-> None,
              calls |-> <<Call("read", text_path, FALSE)>>]
        ELSE IF try_outcome = "encode_raises"
        THEN [refs |-> half, reference |-> None,
              calls |-> <<Call("read", text_path, TRUE),
                          Call("store", KeyPath(requested), TRUE),
                          Call("encode_reference", audio_path, FALSE)>>]
        ELSE [refs |-> stored, reference |-> Some(stored[requested]),
              calls |-> <<Call("read", text_path, TRUE),
                          Call("store", KeyPath(requested), TRUE),
                          Call("encode_reference", audio_path, TRUE)>>]

\* The try block: read the transcript, encode the audio, store the reference
\* under the upper-cased key.  An exception raised by the read or the encode
\* is logged and leaves no reference and no cache entry.
LazyEncode(refs, voice_name, try_outcome) ==
    LET requested == CacheKey(voice_name)
        audio_path == AudioPath(voice_name)
        text_path == TextPath(voice_name)
        stored == StoreReference(refs, requested,
                      Reference(ReadText(text_path), encode_reference(audio_path)))
    IN  IF try_outcome = "read_raises"
        THEN [refs |-> refs, reference |-> None,
              calls |-> <<Call("read", text_path, FALSE)>>]
        ELSE IF try_outcome = "encode_raises"
        THEN [refs |-> refs, reference |-> None,
              calls |-> <<Call("read", text_path, TRUE),
                          Call("encode_reference", audio_path, FALSE)>>]
        ELSE [refs |-> stored, reference |-> Some(stored[requested]),
              calls |-> <<Call("read", text_path, TRUE),
                          Call("encode_reference", audio_path, TRUE),
                          Call("store", KeyPath(requested), TRUE)>>]

\* The cache lookup and the disk probe.  A cached key is used as it is.
\* Otherwise samples/<voice_name>.wav and .txt are probed under the name as
\* given (`and` probes the transcript only when the audio exists), and the
\* try block runs when both exist.
ResolveReference(refs, files, voice_name, try_outcome) ==
    LET requested == CacheKey(voice_name)
        audio_path == AudioPath(voice_name)
        text_path == TextPath(voice_name)
        hit == IsCached(refs, requested)
        lookup == <<Call("in cached_refs", KeyPath(requested), hit)>>
        probe_audio == <<Call("exists", audio_path, exists(files, audio_path))>>
        probe_text == <<Call("exists", text_path, exists(files, text_path))>>
        encoded == LazyEncode(refs, voice_name, try_outcome)
    IN  IF hit
        THEN [refs |-> refs, reference |-> Some(refs[requested]), calls |-> lookup]
        ELSE IF ~exists(files, audio_path)
        THEN [refs |-> refs, reference |-> None, calls |-> lookup \o probe_audio]
        ELSE IF ~exists(files, text_path)
        THEN [refs |-> refs, reference |-> None,
              calls |-> lookup \o probe_audio \o probe_text]
        ELSE [refs |-> encoded.refs, reference |-> encoded.reference,
              calls |-> lookup \o probe_audio \o probe_text \o encoded.calls]

\* mutant of FallBack: the fallback reference is cached under the requested
\* name
FallBack_CachesFallback(refs, reference, voice_name) ==
    IF reference # None
    THEN [refs |-> refs, reference |-> reference, warning |-> None,
          not_found |-> FALSE]
    ELSE IF MALE \in DOMAIN refs
    THEN [refs |-> [k \in (DOMAIN refs) \cup {upper(voice_name)} |->
                       IF k = upper(voice_name) THEN refs[MALE] ELSE refs[k]],
          reference |-> Some(refs[MALE]),
          warning |-> Some(FallbackWarning(voice_name)), not_found |-> FALSE]
    ELSE [refs |-> refs, reference |-> None, warning |-> None,
          not_found |-> TRUE]

\* "If still no reference, fall back to MALE": the cached MALE reference with
\* a warning, or a 404 when MALE is not cached.  The cache is not written.
FallBack(refs, reference, voice_name) ==
    IF reference # None
    THEN [refs |-> refs, reference |-> reference, warning |-> None,
          not_found |-> FALSE]
    ELSE IF MALE \in DOMAIN refs
    THEN [refs |-> refs, reference |-> Some(refs[MALE]),
          warning |-> Some(FallbackWarning(voice_name)), not_found |-> FALSE]
    ELSE [refs |-> refs, reference |-> None, warning |-> None,
          not_found |-> TRUE]

\* tts_model.infer and sf.write at 24000 Hz: the WAV bytes of a synthesis
Synthesize(text, reference) ==
    [wav |-> <<text, reference.codes, reference.text>>, samplerate |-> 24000]

\* run_inference below its model guard: resolve the reference, fall back,
\* synthesize.  The result is the audio bytes and the warning returned, or
\* the HTTPException raised, with the cache left behind and the calls made.
InferWithModel(refs, files, text, voice_name, try_outcome, infer_ok) ==
    LET resolved == ResolveReference(refs, files, voice_name, try_outcome)
        chosen == FallBack(resolved.refs, resolved.reference, voice_name)
    IN  IF chosen.not_found
        THEN [refs |-> chosen.refs, status |-> 404,
              detail |-> NotFoundDetail(voice_name),
              audio |-> None, warning |-> None, reference |-> None,
              calls |-> resolved.calls]
        ELSE IF ~infer_ok
        THEN [refs |-> chosen.refs, status |-> 500,
              detail |-> InternalErrorDetail,
              audio |-> None, warning |-> None, reference |-> chosen.reference,
              calls |-> resolved.calls \o <<Call("infer", NoPath, FALSE)>>]
        ELSE [refs |-> chosen.refs, status |-> 200, detail |-> <<>>,
              audio |-> Some(Synthesize(text, chosen.reference[1])),
              warning |-> chosen.warning, reference |-> chosen.reference,
              calls |-> resolved.calls \o <<Call("infer", NoPath, TRUE)>>]

\* mutant of run_inference: the model guard is missing
run_inference_NoGuard(refs, files, model, text, voice_name, try_outcome, infer_ok) ==
    InferWithModel(refs, files, text, voice_name, try_outcome, infer_ok)

\* run_inference(text, voice_name): 503 before anything else when
\* app_state holds no model
run_inference(refs, files, model, text, voice_name, try_outcome, infer_ok) ==
    IF ~model
    THEN [refs |-> refs, status |-> 503, detail |-> ModelUnavailableDetail,
          audio |-> None, warning |-> None, reference |-> None, calls |-> <<>>]
    ELSE InferWithModel(refs, files, text, voice_name, try_outcome, infer_ok)

---------------------------------------------------------------------------
(* The endpoints *)

\* base64.b64encode(audio_bytes).decode("utf-8")
b64encode(audio) == <<"base64 of", audio>>

\* how many of the calls are calls of op
CountCalls(calls, op) == Cardinality({i \in 1..Len(calls) : calls[i].op = op})

\* whether a call of op was made and returned ok
Made(calls, op, ok) == \E i \in 1..Len(calls) : calls[i].op = op /\ calls[i].ok = ok

\* cache keys the history counts encodes for
Keys == {CacheKey(n) : n \in VoiceNames} \cup {MALE, FEMALE}

\* TTSResponseBase64(audio_base64, input_text, voice_type, warning)
TTSResponseBase64(result, text, voice_name) ==
    [audio_base64 |-> b64encode(result.audio[1]), input_text |-> text,
     voice_type |-> voice_name, warning |-> result.warning]

\* StreamingResponse(io.BytesIO(audio_bytes), media_type="audio/wav", ...)
StreamingResponse(result) ==
    [body |-> result.audio[1], media_type |-> "audio/wav"]

\* One request, from its arrival to its response: the event loop runs the
\* handler without interruption.  An HTTPException raised by run_inference
\* becomes the response.
Handle(endpoint, text, voice_name, try_outcome, infer_ok) ==
    LET result == run_inference(cached_references, samples, tts_model, text,
                                voice_name, try_outcome, infer_ok)
        key == CacheKey(voice_name)
    IN  /\ served < MaxRequests
        /\ cached_references' = result.refs
        /\ encode_calls' =
              [encode_calls EXCEPT
                 ![key] = @ + CountCalls(result.calls, "encode_reference")]
        /\ served' = served + 1
        /\ last' = Some([endpoint |-> endpoint, text |-> text,
                         voice_name |-> voice_name,
                         result |-> [status |-> result.status,
                                     detail |-> result.detail,
                                     audio |-> result.audio,
                                     warning |-> result.warning,
                                     reference |-> result.reference,
                                     calls |-> result.calls],
                         response |->
                             IF result.status # 200 THEN None
                             ELSE IF endpoint = "base64"
                             THEN Some(TTSResponseBase64(result, text, voice_name))
                             ELSE Some(StreamingResponse(result))])
        /\ UNCHANGED <<samples, tts_model>>

\* POST /generate-tts-base64/
generate_tts_base64 ==
    \E text \in Texts, voice_name \in VoiceNames,
       try_outcome \in TryOutcomes, infer_ok \in BOOLEAN :
        Handle("base64", text, voice_name, try_outcome, infer_ok)

\* POST /generate-tts-file/
generate_tts_file ==
    \E text \in Texts, voice_name \in VoiceNames,
       try_outcome \in TryOutcomes, infer_ok \in BOOLEAN :
        Handle("file", text, voice_name, try_outcome, infer_ok)

---------------------------------------------------------------------------
(* The specification *)

\* The state once the module is imported: samples/ holds any files, the model
\* is loaded (or app_state holds none, the case the 503 guard reads), and the
\* pre-load loop has run.  An encode that raises at start-up ends the process,
\* so every pre-loaded voice was encoded once.
Init ==
    /\ samples \in {S \in SUBSET AllFiles : Cardinality(S) <= MaxFiles}
    /\ tts_model \in BOOLEAN
    /\ cached_references = IF tts_model THEN Preload(samples) ELSE EmptyCache
    /\ encode_calls = [k \in Keys |-> IF k \in DOMAIN cached_references THEN 1 ELSE 0]
    /\ served = 0
    /\ last = None

Next == generate_tts_base64 \/ generate_tts_file

Spec == Init /\ [][Next]_vars

TypeOK ==
    /\ samples \subseteq AllFiles
    /\ tts_model \in BOOLEAN
    /\ DOMAIN cached_references \subseteq Keys
    /\ served \in 0..MaxRequests

---------------------------------------------------------------------------
(* Vocabulary of the properties *)

\* the last request handled (when there is one) and the one a step handles
Req == last[1]
StepReq == last'[1]

\* two strings that differ at most in the case of their letters
SameIgnoringCase(a, b) ==
    /\ Len(a) = Len(b)
    /\ \A i \in 1..Len(a) :
          \/ a[i] = b[i]
          \/ \E j \in 1..Len(LowerLetters) :
                {a[i], b[i]} = {LowerLetters[j], UpperLetters[j]}

\* samples/ holds both the audio and the transcript of a name as spelled
AssetsOnDisk(voice_name) ==
    AudioPath(voice_name) \in samples /\ TextPath(voice_name) \in samples

\* the reference the files of a name encode to
ReferenceOnDisk(voice_name) ==
    [text |-> <<"transcript of", voice_name>>, codes |-> <<"codes of", voice_name>>]

---------------------------------------------------------------------------
(* C1 *)

\* C1 as stated: in every reachable state, two requests whose voice names
\* differ only in letter case use the same reference and agree on whether a
\* warning is returned, cached or not.
C1_Original ==
    \A n1 \in VoiceNames, n2 \in VoiceNames :
        SameIgnoringCase(n1, n2) =>
            \A text \in Texts, t \in TryOutcomes, ok \in BOOLEAN :
                LET r1 == run_inference(cached_references, samples, tts_model,
                                        text, n1, t, ok)
                    r2 == run_inference(cached_references, samples, tts_model,
                                        text, n2, t, ok)
                IN  /\ r1.reference = r2.reference
                    /\ (r1.warning = None) <=> (r2.warning = None)

\* C1 amended: the cache lookup is case-insensitive. Two voice names that
\* differ only in letter case have the same cache key, and whenever that key
\* is cached both requests end alike, using exactly the cached reference and
\* returning no warning.
C1_CachedLookupIgnoresCase ==
    \A n1 \in VoiceNames, n2 \in VoiceNames :
        SameIgnoringCase(n1, n2) =>
            /\ CacheKey(n1) = CacheKey(n2)
            /\ (tts_model /\ upper(n1) \in DOMAIN cached_references) =>
                  \A text \in Texts, t \in TryOutcomes, ok \in BOOLEAN :
                      LET r1 == run_inference(cached_references, samples,
                                              tts_model, text, n1, t, ok)
                          r2 == run_inference(cached_references, samples,
                                              tts_model, text, n2, t, ok)
                      IN  /\ r1.reference = Some(cached_references[upper(n1)])
                          /\ r2.reference = r1.reference
                          /\ r1.warning = None /\ r2.warning = None
                          /\ r1.status = r2.status
                          /\ r1.refs = cached_references
                          /\ r2.refs = cached_references

\* a request spelled otherwise than its cache key was served from the cache
C1_Witness ==
    /\ last # None
    /\ Req.voice_name # upper(Req.voice_name)
    /\ Made(Req.result.calls, "in cached_refs", TRUE)
    /\ Req.result.status = 200
    /\ Req.result.reference = Some(cached_references[upper(Req.voice_name)])

---------------------------------------------------------------------------
(* C2 *)

\* C2 as stated, in its conclusion: encode_reference is invoked at most once
\* for every key the cache holds.
C2_Original ==
    \A k \in DOMAIN cached_references : encode_calls[k] <= 1

C2_Step ==
    LET name == StepReq.voice_name
        key == upper(name)
        calls == StepReq.result.calls
    IN  \* a request for an uncached name whose files exist and whose try
        \* block does not raise leaves the entry under the upper-cased key
        /\ (/\ tts_model
            /\ key \notin DOMAIN cached_references
            /\ AssetsOnDisk(name)
            /\ ~Made(calls, "read", FALSE)
            /\ ~Made(calls, "encode_reference", FALSE))
           => /\ key \in DOMAIN cached_references'
              /\ cached_references'[key] = ReferenceOnDisk(name)
              /\ Made(calls, "encode_reference", TRUE)
        \* an encode that succeeds is the one that populates its key
        /\ Made(calls, "encode_reference", TRUE)
           => /\ key \notin DOMAIN cached_references
              /\ key \in DOMAIN cached_references'
        \* every request for a populated key is a cache hit
        /\ (tts_model /\ key \in DOMAIN cached_references)
           => /\ Made(calls, "in cached_refs", TRUE)
              /\ CountCalls(calls, "encode_reference") = 0
        \* no encode is invoked for a key once it is populated
        /\ \A k \in DOMAIN cached_references : encode_calls'[k] = encode_calls[k]

\* C2 amended: a request for an uncached name whose files exist and whose
\* encode succeeds leaves an entry under the upper-cased name; every later
\* request for that key is a cache hit, and encode_reference is never invoked
\* again for a populated key, so each key is populated by one successful
\* encode. Encodes that raise leave the key unpopulated and can repeat.
C2_PopulatedOnce == [][C2_Step]_vars

\* a key populated lazily by one request served the next from the cache
C2_Witness ==
    /\ last # None
    /\ served = 2
    /\ DAVE \in DOMAIN cached_references
    /\ encode_calls[DAVE] = 1
    /\ upper(Req.voice_name) = DAVE
    /\ Made(Req.result.calls, "in cached_refs", TRUE)

---------------------------------------------------------------------------
(* C3 *)

\* C3: a cache key, once populated (at start-up or lazily), is never removed,
\* and no request leaves it with a value other than the one it had.
C3_EntriesAreStable ==
    [][\A k \in DOMAIN cached_references :
           /\ k \in DOMAIN cached_references'
           /\ cached_references'[k] = cached_references[k]]_vars

\* a pre-loaded and a lazily populated entry are both there after a later
\* request that fell back
C3_Witness ==
    /\ last # None
    /\ served = 2
    /\ {MALE, DAVE} \subseteq DOMAIN cached_references
    /\ cached_references[MALE] = ReferenceOnDisk(male)
    /\ encode_calls[DAVE] = 1
    /\ Req.result.warning # None

---------------------------------------------------------------------------
(* C5 *)

C5_Step ==
    LET key == upper(StepReq.voice_name)
        result == StepReq.result
    IN  (tts_model /\ key \in DOMAIN cached_references)
        => /\ CountCalls(result.calls, "exists") = 0
           /\ CountCalls(result.calls, "read") = 0
           /\ CountCalls(result.calls, "encode_reference") = 0
           /\ CountCalls(result.calls, "store") = 0
           /\ result.reference = Some(cached_references[key])
           /\ result.warning = None
           /\ result.status \in {200, 500}
           /\ cached_references' = cached_references

\* C5: a request whose upper-cased voice name is a key of the cache probes no
\* file, reads no transcript, calls no encode_reference, uses exactly the
\* cached reference and returns no warning.
C5_HitIsPureLookup == [][C5_Step]_vars

\* a request was served from the cache: a lookup, then the inference
C5_Witness ==
    /\ last # None
    /\ Req.result.status = 200
    /\ Len(Req.result.calls) = 2
    /\ Req.result.calls[1].op = "in cached_refs" /\ Req.result.calls[1].ok
    /\ Req.result.calls[2].op = "infer"
    /\ Req.result.audio =
          Some(Synthesize(Req.text, cached_references[upper(Req.voice_name)]))

---------------------------------------------------------------------------
(* C6 *)

C6_Step ==
    LET name == StepReq.voice_name
        key == upper(name)
        result == StepReq.result
    IN  \* the fallback of a name with no cache entry and no assets
        /\ (/\ tts_model
            /\ key \notin DOMAIN cached_references
            /\ ~AssetsOnDisk(name)
            /\ MALE \in DOMAIN cached_references)
           => /\ result.reference = Some(cached_references[MALE])
              /\ result.status \in {200, 500}
              /\ result.status = 500 => Made(result.calls, "infer", FALSE)
              /\ result.status = 200
                 => /\ result.warning # None
                    /\ Contains(result.warning[1], name)
                    /\ result.audio =
                          Some(Synthesize(StepReq.text, cached_references[MALE]))
                    /\ StepReq.endpoint = "base64"
                       => StepReq.response[1].warning = result.warning
        \* a warning comes from the fallback only
        /\ result.warning # None
           => /\ tts_model
              /\ key \notin DOMAIN cached_references
              /\ MALE \in DOMAIN cached_references
              /\ ~Made(result.calls, "store", TRUE)
              /\ result.reference = Some(cached_references[MALE])

\* C6: a request for a name that is not cached and has no audio or no
\* transcript on disk, while MALE is cached, synthesizes with the cached MALE
\* reference and returns a warning that contains the voice name as given; no
\* request returns a warning unless it fell back to MALE.
C6_FallbackWarns == [][C6_Step]_vars

\* a lower-case name without assets fell back to MALE and was warned
C6_Witness ==
    /\ last # None
    /\ Req.voice_name = dave
    /\ ~AssetsOnDisk(dave)
    /\ Req.result.status = 200
    /\ Req.result.warning = Some(FallbackWarning(dave))
    /\ Req.result.reference = Some(cached_references[MALE])

---------------------------------------------------------------------------
(* C7 *)

C7_Step ==
    LET name == StepReq.voice_name
        key == upper(name)
        result == StepReq.result
    IN  (/\ tts_model
         /\ key \notin DOMAIN cached_references
         /\ ~AssetsOnDisk(name)
         /\ MALE \notin DOMAIN cached_references)
        => /\ result.status = 404
           /\ Contains(result.detail, name)
           /\ CountCalls(result.calls, "infer") = 0
           /\ result.audio = None
           /\ StepReq.response = None

\* C7: a request for a name that is not cached and has no audio or no
\* transcript on disk, while MALE is not cached, fails with a 404 whose
\* detail names the voice as requested, and infer is never called for it.
C7_NotFound == [][C7_Step]_vars

\* a request ended in 404 after its disk probe found a file missing
C7_Witness ==
    /\ last # None
    /\ Req.result.status = 404
    /\ Made(Req.result.calls, "exists", FALSE)
    /\ MALE \notin DOMAIN cached_references

---------------------------------------------------------------------------
(* C8 *)

C8_Step ==
    LET name == StepReq.voice_name
        key == upper(name)
        result == StepReq.result
    IN  /\ (/\ tts_model
            /\ key \notin DOMAIN cached_references
            /\ AssetsOnDisk(name)
            /\ \/ Made(result.calls, "read", FALSE)
               \/ Made(result.calls, "encode_reference", FALSE))
           => /\ cached_references' = cached_references
              /\ MALE \in DOMAIN cached_references
                 => /\ result.reference = Some(cached_references[MALE])
                    /\ result.status \in {200, 500}
                    /\ result.status = 200 => result.warning # None
              /\ MALE \notin DOMAIN cached_references
                 => result.status = 404
        \* the only 500 is that of an inference that raised
        /\ result.status = 500 => Made(result.calls, "infer", FALSE)

\* C8: when the files of an uncached name exist but the transcript read or
\* encode_reference raises, the error does not reach the caller: no cache
\* entry is written, and the request goes on to the MALE fallback with its
\* warning when MALE is cached, to the 404 otherwise.
C8_EncodeFailureFallsBack == [][C8_Step]_vars

\* an encode raised and the request was answered with the MALE fallback
C8_Witness ==
    /\ last # None
    /\ Made(Req.result.calls, "encode_reference", FALSE)
    /\ Req.result.status = 200
    /\ Req.result.warning # None
    /\ upper(Req.voice_name) \notin DOMAIN cached_references

---------------------------------------------------------------------------
(* C9 *)

\* C9: every request handled ended in exactly one outcome: 503 when there is
\* no model, before any cache test or disk probe; else 404 when no reference
\* and no MALE fallback; else 500 when infer raised; else the audio bytes.
\* encode_reference and infer are each called at most once in a request.
C9_OneTerminalOutcome ==
    last # None =>
        LET result == Req.result
            key == upper(Req.voice_name)
        IN  /\ result.status \in {503, 404, 500, 200}
            /\ (result.status = 503) <=> ~tts_model
            /\ result.status = 503 => result.calls = <<>>
            /\ (result.status = 404)
               <=> /\ tts_model
                   /\ key \notin DOMAIN cached_references
                   /\ MALE \notin DOMAIN cached_references
            /\ result.status = 404 => CountCalls(result.calls, "infer") = 0
            /\ (result.status = 500) <=> Made(result.calls, "infer", FALSE)
            /\ (result.status = 200) <=> Made(result.calls, "infer", TRUE)
            /\ (result.status = 200) <=> (result.audio # None)
            /\ (result.status = 200) <=> (result.detail = <<>>)
            /\ (result.status = 200) <=> (Req.response # None)
            /\ CountCalls(result.calls, "encode_reference") <= 1
            /\ CountCalls(result.calls, "infer") <= 1

\* a request was refused with 503
C9_Witness ==
    /\ last # None
    /\ Req.result.status = 503
    /\ Req.result.detail = ModelUnavailableDetail

---------------------------------------------------------------------------
(* C10 *)

C10_Step ==
    LET name == StepReq.voice_name
        key == upper(name)
        result == StepReq.result
    IN  \* the one change is the entry of a successful lazy encode
        /\ cached_references' # cached_references
           => /\ Made(result.calls, "encode_reference", TRUE)
              /\ key \notin DOMAIN cached_references
              /\ cached_references' =
                    [k \in (DOMAIN cached_references) \cup {key} |->
                        IF k = key THEN ReferenceOnDisk(name)
                        ELSE cached_references[k]]
        \* a hit, a fallback, a 404 and a 503 change nothing
        /\ \/ Made(result.calls, "in cached_refs", TRUE)
           \/ result.warning # None
           \/ result.status \in {404, 503}
           \/ ~Made(result.calls, "encode_reference", TRUE)
           => cached_references' = cached_references
        \* the entry stays whatever the inference does
        /\ Made(result.calls, "encode_reference", TRUE)
           => /\ key \in DOMAIN cached_references'
              /\ cached_references'[key] = ReferenceOnDisk(name)

\* C10: the cache changes only by the entry a successful lazy encode adds: a
\* request that ends in a hit, a MALE fallback, a 404 or a 503 leaves the
\* cache as it was, and the entry of a successful lazy encode stays when the
\* same request then fails with 500.
C10_OnlyLazyEncodeWrites == [][C10_Step]_vars

\* a request encoded and cached its reference, then failed with 500
C10_Witness ==
    /\ last # None
    /\ Req.result.status = 500
    /\ Made(Req.result.calls, "encode_reference", TRUE)
    /\ upper(Req.voice_name) \in DOMAIN cached_references
    /\ cached_references[upper(Req.voice_name)] = ReferenceOnDisk(Req.voice_name)

====
